---------------------------- MODULE Spec2Model ----------------------------
(***************************************************************************)
(* A model of src/src/deno_index.ts: a reverse proxy that maps a path      *)
(* prefix to an upstream base URL, forwards the request with an            *)
(* allow-listed header set and relays the upstream's response.             *)
(*                                                                         *)
(* Strings are TLA+ strings; startsWith, slice and concatenation are       *)
(* computed on them character by character.  A Headers object is a         *)
(* function from lower-cased header names to values.                       *)
(*                                                                         *)
(* A handler invocation runs without interruption up to its `await fetch`  *)
(* and again from the settlement of that promise to its return, so each    *)
(* of these stretches is one action.                                       *)
(***************************************************************************)
EXTENDS Integers, Sequences, FiniteSets, TLC

VARIABLES
    apiMapping,   \* the module-level route table object
    pc,           \* per handler invocation: "idle", "await" or "done"
    request,      \* per invocation: the Request it was called with
    prefix,       \* per invocation: local `prefix`
    rest,         \* per invocation: local `rest`
    targetUrl,    \* per invocation: local `targetUrl`
    headers,      \* per invocation: local `headers` (outbound Headers)
    called,       \* per invocation: extractPrefixAndRest / Headers / fetch, in call order
    fetchCalls,   \* per invocation: the argument records of its fetch calls
    fetched,      \* per invocation: the upstream responses its fetch resolved with
    responses,    \* per invocation: the Responses it returned
    rpc,          \* router harness: "off", "call" or "returned"
    rPathname,    \* router harness: argument `pathname`
    rPrefixes,    \* router harness: argument `prefixes`
    rResult       \* router harness: the returned tuple

handlerVars == <<pc, request, prefix, rest, targetUrl, headers, called,
                 fetchCalls, fetched, responses>>
routerVars == <<rpc, rPathname, rPrefixes, rResult>>
vars == <<apiMapping, handlerVars, routerVars>>

-----------------------------------------------------------------------------
(* Bounds of the model *)

\* Number of handler invocations that may be in flight together.
NReq == 2
\* Most header lines an inbound request carries.
MaxInboundHeaders == 3
\* Most header lines an upstream response carries.
MaxUpstreamHeaders == 2
\* Longest path and prefix, and longest prefix list, given to the router harness.
MaxPathLen == 4
MaxPrefixLen == 2
MaxPrefixes == 2

-----------------------------------------------------------------------------
(* Strings *)

\* JavaScript null; no input string of the model equals it.
Null == "<null>"

\* String.prototype.startsWith
StartsWith(s, p) == Len(p) <= Len(s) /\ SubSeq(s, 1, Len(p)) = p

\* String.prototype.slice(n) for 0 <= n
Slice(s, n) == IF n >= Len(s) THEN "" ELSE SubSeq(s, n + 1, Len(s))

UpperAlphabet == "ABCDEFGHIJKLMNOPQRSTUVWXYZ"
LowerAlphabet == "abcdefghijklmnopqrstuvwxyz"

UpperLetters == {SubSeq(UpperAlphabet, k, k) : k \in 1..Len(UpperAlphabet)}
LowerOf ==
    [c \in UpperLetters |->
        LET k == CHOOSE k \in 1..Len(UpperAlphabet) : SubSeq(UpperAlphabet, k, k) = c
        IN  SubSeq(LowerAlphabet, k, k)]

LowerChar(c) == IF c \in UpperLetters THEN LowerOf[c] ELSE c

RECURSIVE LowerFrom(_, _)
LowerFrom(s, k) ==
    IF k > Len(s) THEN "" ELSE LowerChar(SubSeq(s, k, k)) \o LowerFrom(s, k + 1)

\* String.prototype.toLowerCase
ToLowerCase(s) == LowerFrom(s, 1)

\* Index of the first occurrence of character c in s, 0 if there is none.
IndexOf(s, c) ==
    LET hits == {k \in 1..Len(s) : SubSeq(s, k, k) = c}
    IN  IF hits = {} THEN 0 ELSE CHOOSE k \in hits : \A j \in hits : k <= j

-----------------------------------------------------------------------------
(* The route table *)

MutantApiMapping ==
    << [prefix |-> "/mistral",     target |-> "https://api.mistral.ai"],
       [prefix |-> "/discord",     target |-> "https://discord.com/api"],
       [prefix |-> "/telegram",    target |-> "https://api.telegram.org"],
       [prefix |-> "/openai",      target |-> "https://api.openai.com"],
       [prefix |-> "/claude",      target |-> "https://api.anthropic.com"],
       [prefix |-> "/gemini",      target |-> "https://generativelanguage.googleapis.com"],
       [prefix |-> "/meta",        target |-> "https://www.meta.ai/api"],
       [prefix |-> "/groq",        target |-> "https://api.groq.com/openai"],
       [prefix |-> "/xai",         target |-> "https://api.x.ai"],
       [prefix |-> "/cohere",      target |-> "https://api.cohere.ai"],
       [prefix |-> "/huggingface", target |-> "https://api-inference.huggingface.co"],
       [prefix |-> "/together",    target |-> "https://api.together.xyz"],
       [prefix |-> "/novita",      target |-> "https://api.novita.ai"],
       [prefix |-> "/portkey",     target |-> "https://api.portkey.ai"],
       [prefix |-> "/fireworks",   target |-> "https://api.fireworks.ai"],
       [prefix |-> "/openai/v1",   target |-> "https://openrouter.ai/api"] >>

\* The object literal, as the sequence of its properties in insertion order.
ApiMapping ==
    << [prefix |-> "/mistral",     target |-> "https://api.mistral.ai"],
       [prefix |-> "/discord",     target |-> "https://discord.com/api"],
       [prefix |-> "/telegram",    target |-> "https://api.telegram.org"],
       [prefix |-> "/openai",      target |-> "https://api.openai.com"],
       [prefix |-> "/claude",      target |-> "https://api.anthropic.com"],
       [prefix |-> "/gemini",      target |-> "https://generativelanguage.googleapis.com"],
       [prefix |-> "/meta",        target |-> "https://www.meta.ai/api"],
       [prefix |-> "/groq",        target |-> "https://api.groq.com/openai"],
       [prefix |-> "/xai",         target |-> "https://api.x.ai"],
       [prefix |-> "/cohere",      target |-> "https://api.cohere.ai"],
       [prefix |-> "/huggingface", target |-> "https://api-inference.huggingface.co"],
       [prefix |-> "/together",    target |-> "https://api.together.xyz"],
       [prefix |-> "/novita",      target |-> "https://api.novita.ai"],
       [prefix |-> "/portkey",     target |-> "https://api.portkey.ai"],
       [prefix |-> "/fireworks",   target |-> "https://api.fireworks.ai"],
       [prefix |-> "/openrouter",  target |-> "https://openrouter.ai/api"] >>

\* Object.keys(m): the property names in insertion order.
ObjectKeys(m) == [k \in 1..Len(m) |-> m[k].prefix]

\* m[key], for a key the object has.
Lookup(m, key) == m[CHOOSE k \in 1..Len(m) : m[k].prefix = key].target

-----------------------------------------------------------------------------
(* The router *)

RECURSIVE MutantScanNoBoundary(_, _, _)
MutantScanNoBoundary(pathname, prefixes, k) ==
    IF k > Len(prefixes) THEN <<Null, Null>>
    ELSE IF StartsWith(pathname, prefixes[k])
         THEN <<prefixes[k], Slice(pathname, Len(prefixes[k]))>>
         ELSE MutantScanNoBoundary(pathname, prefixes, k + 1)

\* The for loop of extractPrefixAndRest, from the k-th prefix on.
RECURSIVE ScanPrefixes(_, _, _)
ScanPrefixes(pathname, prefixes, k) ==
    IF k > Len(prefixes) THEN <<Null, Null>>
    ELSE IF StartsWith(pathname, prefixes[k])
         THEN LET r == Slice(pathname, Len(prefixes[k]))
              IN  IF Len(r) = 0 \/ StartsWith(r, "/")
                  THEN <<prefixes[k], r>>
                  ELSE ScanPrefixes(pathname, prefixes, k + 1)
         ELSE ScanPrefixes(pathname, prefixes, k + 1)

MutantExtractFromSecond(pathname, prefixes) == ScanPrefixes(pathname, prefixes, 2)

extractPrefixAndRest(pathname, prefixes) == ScanPrefixes(pathname, prefixes, 1)

-----------------------------------------------------------------------------
(* URL *)

\* What follows "scheme://authority" in an absolute URL string.
AfterAuthority(u) ==
    LET a == Slice(u, IndexOf(u, ":") + 2)
    IN  Slice(a, IndexOf(a, "/") - 1)

\* new URL(u).pathname: up to the first "?".
URLPathname(u) ==
    LET t == AfterAuthority(u)
        q == IndexOf(t, "?")
    IN  IF q = 0 THEN t ELSE SubSeq(t, 1, q - 1)

\* new URL(u).search: "?" and the query, or "" when the query is absent or empty.
URLSearch(u) ==
    LET t == AfterAuthority(u)
        q == IndexOf(t, "?")
    IN  IF q = 0 \/ q = Len(t) THEN "" ELSE Slice(t, q - 1)

-----------------------------------------------------------------------------
(* Headers *)

\* new Headers()
EmptyHeaders == [n \in {} |-> ""]

\* Headers.prototype.has / get / set: names are matched in lower case.
HeadersHas(h, name) == ToLowerCase(name) \in DOMAIN h
HeadersGet(h, name) == h[ToLowerCase(name)]
HeadersSet(h, name, value) ==
    LET n == ToLowerCase(name)
    IN  [k \in DOMAIN h \cup {n} |-> IF k = n THEN value ELSE h[k]]

\* The Headers object holding a set of header lines <<name, value>>.
RECURSIVE HeadersOf(_)
HeadersOf(lines) ==
    IF lines = {} THEN EmptyHeaders
    ELSE LET l == CHOOSE l \in lines : TRUE
         IN  HeadersSet(HeadersOf(lines \ {l}), l[1], l[2])

allowedHeaders == {"accept", "content-type", "authorization", "x-goog-api-key"}

\* The for loop over request.headers.entries(), for the entries named in keys.
RECURSIVE CopyAllowed(_, _, _)
CopyAllowed(keys, inbound, out) ==
    IF keys = {} THEN out
    ELSE LET key == CHOOSE k \in keys : TRUE
             lowerKey == ToLowerCase(key)
         IN  CopyAllowed(keys \ {key}, inbound,
                         IF lowerKey \in allowedHeaders
                         THEN HeadersSet(out, key, inbound[key])
                         ELSE out)

MutantForwardAll(inbound) == inbound

\* The outbound Headers built from request.headers.
ForwardHeaders(inbound) ==
    LET copied == CopyAllowed(DOMAIN inbound, inbound, EmptyHeaders)
    IN  IF HeadersHas(inbound, "user-agent")
        THEN HeadersSet(copied, "User-Agent", HeadersGet(inbound, "user-agent"))
        ELSE copied

MutantRelayKeepUpstream(upstream) ==
    LET h1 == IF HeadersHas(upstream, "X-Content-Type-Options") THEN upstream
              ELSE HeadersSet(upstream, "X-Content-Type-Options", "nosniff")
        h2 == IF HeadersHas(h1, "X-Frame-Options") THEN h1
              ELSE HeadersSet(h1, "X-Frame-Options", "DENY")
    IN  IF HeadersHas(h2, "Referrer-Policy") THEN h2
        ELSE HeadersSet(h2, "Referrer-Policy", "no-referrer")

\* responseHeaders: a copy of the upstream's headers with the three headers set.
RelayHeaders(upstream) ==
    LET h1 == HeadersSet(upstream, "X-Content-Type-Options", "nosniff")
        h2 == HeadersSet(h1, "X-Frame-Options", "DENY")
    IN  HeadersSet(h2, "Referrer-Policy", "no-referrer")

-----------------------------------------------------------------------------
(* Responses *)

Response(body, status, statusText, hdrs) ==
    [status |-> status, statusText |-> statusText, headers |-> hdrs, body |-> body]

RunningResponse ==
    Response("Service is running!", 200, "",
             HeadersOf({<<"Content-Type", "text/html; charset=utf-8">>}))

RobotsResponse ==
    Response("User-agent: *\nDisallow: /", 200, "",
             HeadersOf({<<"Content-Type", "text/plain; charset=utf-8">>}))

NotFoundResponse == Response("Not Found", 404, "", EmptyHeaders)


RelayResponse(up) ==
    Response(up.body, up.status, up.statusText, RelayHeaders(up.headers))

MutantRunningPathRootOnly(pathname) == pathname = "/"

\* pathname === '/' || pathname === '/index.html'
IsRunningPath(pathname) == pathname = "/" \/ pathname = "/index.html"

\* pathname === '/robots.txt'
IsRobotsPath(pathname) == pathname = "/robots.txt"

MutantBadGatewayResponse == Response("Bad Gateway", 502, "", EmptyHeaders)

\* new Response('Internal Server Error', { status: 500 })
ErrorResponse == Response("Internal Server Error", 500, "", EmptyHeaders)

\* !prefix
Falsy(p) == p = Null \/ p = ""

MutantTargetNoSearch(m, p, r, search) == Lookup(m, p) \o r

\* `${apiMapping[prefix]}${rest}${search}`
BuildTargetUrl(m, p, r, search) == Lookup(m, p) \o r \o search

-----------------------------------------------------------------------------
(* Inputs *)

Invocations == 1..NReq

Origin == "http://localhost:8000"

TablePaths == {ApiMapping[k].prefix : k \in 1..Len(ApiMapping)}

OtherPaths ==
    {"/", "/index.html", "/robots.txt",
     "/openai/v1/models", "/gemini/", "/gemini-pro", "/openrouter/api/v1/chat",
     "/meta/x", "/metal", "/unknown", "/index.html/x", "/Openai", "//openai"}

RawQueries == {"", "?", "?key=AIza&alt=sse"}

InboundHeaderLines ==
    {<<"Cookie", "a=b">>, <<"Authorization", "Bearer X">>, <<"Host", "foo">>,
     <<"User-Agent", "curl/8">>, <<"X-Goog-Api-Key", "AIzaKey">>,
     <<"content-type", "application/json">>, <<"ACCEPT", "*/*">>}

UpstreamHeaderLines ==
    {<<"Content-Type", "application/json">>, <<"X-Frame-Options", "SAMEORIGIN">>,
     <<"referrer-policy", "origin">>}

UpstreamStatuses == {<<201, "Created">>, <<429, "Too Many Requests">>}

Request(method, url, hdrs, body) ==
    [method |-> method, url |-> url, headers |-> hdrs, body |-> body]

\* The requests one invocation is tried with.
Requests ==
    {Request(mb[1], Origin \o path \o q, HeadersOf(lines), mb[2]) :
        mb \in {<<"GET", Null>>, <<"POST", "payload">>},
        path \in TablePaths \cup OtherPaths,
        q \in RawQueries,
        lines \in {L \in SUBSET InboundHeaderLines : Cardinality(L) <= MaxInboundHeaders}}

\* The responses a fetch is tried with.
UpstreamResponses ==
    {Response("upstream body", st[1], st[2], HeadersOf(lines)) :
        st \in UpstreamStatuses,
        lines \in {L \in SUBSET UpstreamHeaderLines : Cardinality(L) <= MaxUpstreamHeaders}}

\* The requests concurrent invocations are tried with.
ConcurrentRequests ==
    {Request("GET", Origin \o "/", EmptyHeaders, Null),
     Request("GET", Origin \o "/robots.txt", EmptyHeaders, Null),
     Request("GET", Origin \o "/unknown", EmptyHeaders, Null),
     Request("POST", Origin \o "/openai/v1/models?x=1",
             HeadersOf({<<"Authorization", "Bearer X">>, <<"Cookie", "a=b">>}), "payload"),
     Request("GET", Origin \o "/gemini",
             HeadersOf({<<"User-Agent", "curl/8">>}), Null)}

ConcurrentUpstreamResponses ==
    {Response("upstream body", 200, "OK",
              HeadersOf({<<"Content-Type", "application/json">>})),
     Response("upstream body", 429, "Too Many Requests",
              HeadersOf({<<"X-Frame-Options", "SAMEORIGIN">>}))}

HarnessAlphabet == {"/", "a"}

RECURSIVE StringsUpTo(_)
StringsUpTo(n) ==
    IF n = 0 THEN {""}
    ELSE LET shorter == StringsUpTo(n - 1)
         IN  shorter \cup {s \o c : s \in shorter, c \in HarnessAlphabet}

RECURSIVE ListsUpTo(_, _)
ListsUpTo(S, n) ==
    IF n = 0 THEN {<<>>}
    ELSE LET shorter == ListsUpTo(S, n - 1)
         IN  shorter \cup {Append(l, x) : l \in shorter, x \in S}

\* The table's keys rotated left by k places, and with entries k and k+1 swapped.
Rotated(keys, k) ==
    [j \in 1..Len(keys) |-> keys[((j + k - 1) % Len(keys)) + 1]]
Swapped(keys, k) ==
    [j \in 1..Len(keys) |-> IF j = k THEN keys[k + 1]
                            ELSE IF j = k + 1 THEN keys[k] ELSE keys[j]]
Reversed(keys) == [j \in 1..Len(keys) |-> keys[Len(keys) + 1 - j]]

TableOrders ==
    LET keys == ObjectKeys(ApiMapping)
    IN  {Rotated(keys, k) : k \in 0..(Len(keys) - 1)}
        \cup {Swapped(keys, k) : k \in 1..(Len(keys) - 1)}
        \cup {Reversed(keys)}

\* Paths around every table prefix: the prefix itself, a sub-path, a longer word,
\* and the prefix cut short.
TableProbes ==
    UNION {{p, p \o "/", p \o "/v1/x", p \o "-pro", p \o "r", SubSeq(p, 1, Len(p) - 1),
            p \o "/v1"} : p \in TablePaths}

HarnessInputs ==
    (StringsUpTo(MaxPathLen) \X ListsUpTo(StringsUpTo(MaxPrefixLen), MaxPrefixes))
    \cup ((TableProbes \cup StringsUpTo(MaxPathLen)) \X TableOrders)

-----------------------------------------------------------------------------
(* State *)

InitHandlers ==
    /\ apiMapping = ApiMapping
    /\ pc = [i \in Invocations |-> "idle"]
    /\ request = [i \in Invocations |-> Request(Null, Null, EmptyHeaders, Null)]
    /\ prefix = [i \in Invocations |-> Null]
    /\ rest = [i \in Invocations |-> Null]
    /\ targetUrl = [i \in Invocations |-> Null]
    /\ headers = [i \in Invocations |-> EmptyHeaders]
    /\ called = [i \in Invocations |-> <<>>]
    /\ fetchCalls = [i \in Invocations |-> <<>>]
    /\ fetched = [i \in Invocations |-> <<>>]
    /\ responses = [i \in Invocations |-> <<>>]

Init ==
    /\ InitHandlers
    /\ rpc = "off"
    /\ rPathname = ""
    /\ rPrefixes = <<>>
    /\ rResult = <<Null, Null>>

InitRouter ==
    /\ InitHandlers
    /\ rpc = "call"
    /\ \E in \in HarnessInputs : rPathname = in[1] /\ rPrefixes = in[2]
    /\ rResult = <<Null, Null>>

-----------------------------------------------------------------------------
(* The handler *)

\* return new Response(...) of invocation i
Return(i, resp) ==
    /\ responses' = [responses EXCEPT ![i] = Append(@, resp)]
    /\ pc' = [pc EXCEPT ![i] = "done"]

\* Lines 25-102: from the call of the handler to its await of fetch.
HandleRequest(i, reqs) ==
    /\ pc[i] = "idle"
    /\ \E req \in reqs :
        LET pathname == URLPathname(req.url)
            search == URLSearch(req.url)
        IN  /\ request' = [request EXCEPT ![i] = req]
            /\ IF IsRunningPath(pathname)
               THEN /\ Return(i, RunningResponse)
                    /\ UNCHANGED <<prefix, rest, targetUrl, headers, called, fetchCalls>>
               ELSE IF IsRobotsPath(pathname)
               THEN /\ Return(i, RobotsResponse)
                    /\ UNCHANGED <<prefix, rest, targetUrl, headers, called, fetchCalls>>
               ELSE LET pr == extractPrefixAndRest(pathname, ObjectKeys(apiMapping))
                    IN  /\ prefix' = [prefix EXCEPT ![i] = pr[1]]
                        /\ rest' = [rest EXCEPT ![i] = pr[2]]
                        /\ IF Falsy(pr[1])
                           THEN /\ Return(i, NotFoundResponse)
                                /\ called' = [called EXCEPT ![i] = <<"extractPrefixAndRest">>]
                                /\ UNCHANGED <<targetUrl, headers, fetchCalls>>
                           ELSE LET target == BuildTargetUrl(apiMapping, pr[1], pr[2], search)
                                    out == ForwardHeaders(req.headers)
                                IN  /\ targetUrl' = [targetUrl EXCEPT ![i] = target]
                                    /\ headers' = [headers EXCEPT ![i] = out]
                                    /\ called' = [called EXCEPT ![i] =
                                          <<"extractPrefixAndRest", "Headers", "fetch">>]
                                    /\ fetchCalls' = [fetchCalls EXCEPT ![i] =
                                          Append(@, [url |-> target, method |-> req.method,
                                                     headers |-> out, body |-> req.body])]
                                    /\ pc' = [pc EXCEPT ![i] = "await"]
                                    /\ UNCHANGED responses
    /\ UNCHANGED <<apiMapping, fetched, routerVars>>

\* Lines 104-121: the fetch resolved with response up.
FetchResolved(i, ups) ==
    /\ pc[i] = "await"
    /\ \E up \in ups :
        /\ fetched' = [fetched EXCEPT ![i] = Append(@, up)]
        /\ called' = [called EXCEPT ![i] = Append(@, "Headers")]
        /\ Return(i, RelayResponse(up))
    /\ UNCHANGED <<apiMapping, request, prefix, rest, targetUrl, headers, fetchCalls,
                   routerVars>>

MutantFetchRejectedRetry(i) ==
    /\ pc[i] = "await"
    /\ IF Len(fetchCalls[i]) < 2
       THEN /\ fetchCalls' = [fetchCalls EXCEPT ![i] = Append(@, @[1])]
            /\ UNCHANGED <<pc, responses>>
       ELSE /\ Return(i, ErrorResponse)
            /\ UNCHANGED fetchCalls
    /\ UNCHANGED <<apiMapping, request, prefix, rest, targetUrl, headers, called,
                   fetched, routerVars>>

\* Lines 123-126: the fetch rejected.
FetchRejected(i) ==
    /\ pc[i] = "await"
    /\ Return(i, ErrorResponse)
    /\ UNCHANGED <<apiMapping, request, prefix, rest, targetUrl, headers, called,
                   fetchCalls, fetched, routerVars>>

MutantServeOneAtATime(i, reqs) ==
    /\ \A j \in Invocations : pc[j] # "await"
    /\ HandleRequest(i, reqs)

\* serve(handler): the server calls the handler for a request as it arrives,
\* whatever the other invocations are doing.
Serve(i, reqs) == HandleRequest(i, reqs)

\* One invocation, tried with every request and every upstream outcome.
Next ==
    \/ Serve(1, Requests)
    \/ FetchResolved(1, UpstreamResponses)
    \/ FetchRejected(1)

Spec == Init /\ [][Next]_vars

\* Invocations in flight together.
NextConcurrent ==
    \E i \in Invocations :
        \/ Serve(i, ConcurrentRequests)
        \/ FetchResolved(i, ConcurrentUpstreamResponses)
        \/ FetchRejected(i)

SpecConcurrent == Init /\ [][NextConcurrent]_vars

-----------------------------------------------------------------------------
(* The router on its own *)

RouterReturn ==
    /\ rpc = "call"
    /\ rResult' = extractPrefixAndRest(rPathname, rPrefixes)
    /\ rpc' = "returned"
    /\ UNCHANGED <<apiMapping, handlerVars, rPathname, rPrefixes>>

NextRouter == RouterReturn

SpecRouter == InitRouter /\ [][NextRouter]_vars

-----------------------------------------------------------------------------
(* Properties *)

\* The router's rule, stated on the path: p is a literal prefix of the path and
\* the path ends there or goes on with "/".
Accepts(pathname, p) ==
    /\ StartsWith(pathname, p)
    /\ \/ Len(pathname) = Len(p)
       \/ SubSeq(pathname, Len(p) + 1, Len(p) + 1) = "/"

AcceptedAt(pathname, prefixes) ==
    {k \in 1..Len(prefixes) : Accepts(pathname, prefixes[k])}

\* The accepted prefix that no accepted prefix is longer than, with its remainder.
LongestMatch(pathname, prefixes) ==
    LET acc == AcceptedAt(pathname, prefixes)
    IN  IF acc = {} THEN <<Null, Null>>
        ELSE LET k == CHOOSE k \in acc :
                          \A j \in acc : Len(prefixes[j]) <= Len(prefixes[k])
             IN  <<prefixes[k], Slice(pathname, Len(prefixes[k]))>>

\* The path and the query string of the request invocation i serves, read off
\* request.url: the query string is "?" and what follows it, or nothing when
\* nothing follows it.
PathOf(i) ==
    LET t == Slice(request[i].url, Len(Origin))
        q == IndexOf(t, "?")
    IN  IF q = 0 THEN t ELSE SubSeq(t, 1, q - 1)

QueryStringOf(i) ==
    LET t == Slice(request[i].url, Len(Origin))
        q == IndexOf(t, "?")
    IN  IF q = 0 \/ q = Len(t) THEN "" ELSE SubSeq(t, q, Len(t))

Started(i) == pc[i] # "idle"

Matched(i) == \E k \in 1..Len(ApiMapping) : Accepts(PathOf(i), ApiMapping[k].prefix)

StaticPath(i) == PathOf(i) \in {"/", "/index.html", "/robots.txt"}

\* C1: extractPrefixAndRest returns the first prefix, in list order, that the path
\* starts with and after which the path ends or goes on with "/", together with
\* the path less that prefix; a prefix followed by any other character is passed
\* over; when no prefix is accepted it returns (null, null).
C1_FirstAcceptedPrefix ==
    rpc = "returned" =>
        LET acc == AcceptedAt(rPathname, rPrefixes)
        IN  IF acc = {} THEN rResult = <<Null, Null>>
            ELSE LET k == CHOOSE k \in acc : \A j \in acc : k <= j
                 IN  /\ rResult[1] = rPrefixes[k]
                     /\ rResult[1] \o rResult[2] = rPathname
                     /\ rResult[2] = "" \/ StartsWith(rResult[2], "/")

\* A literal prefix followed by another character was passed over and a later
\* prefix of the list was returned.
C1_Witness ==
    /\ rpc = "returned"
    /\ rResult[1] # Null
    /\ \E k \in 1..Len(rPrefixes) :
          /\ StartsWith(rPathname, rPrefixes[k])
          /\ ~Accepts(rPathname, rPrefixes[k])
          /\ \A j \in 1..k : rPrefixes[j] # rResult[1]

\* C2: a request whose path no table prefix matches, and which is none of "/",
\* "/index.html", "/robots.txt", is answered 404 "Not Found", whatever its method,
\* query string and headers.
C2_UnmatchedIs404 ==
    \A i \in Invocations :
        (Started(i) /\ ~Matched(i) /\ ~StaticPath(i)) =>
            /\ pc[i] = "done"
            /\ Len(responses[i]) = 1
            /\ responses[i][1].status = 404
            /\ responses[i][1].body = "Not Found"

\* POST /gemini-pro with a query string and headers was answered 404.
C2_Witness ==
    /\ pc[1] = "done"
    /\ PathOf(1) = "/gemini-pro"
    /\ QueryStringOf(1) # ""
    /\ request[1].method = "POST"
    /\ DOMAIN request[1].headers # {}
    /\ responses[1][1].status = 404

\* C3: when the router matches the path with prefix p and remainder r, the URL
\* given to fetch is the upstream base of p, then r, then the request's query
\* string: the bare base and the query string when the path is p itself, the base
\* and "/x" and the query string when the path is p followed by "/x".
C3_TargetUrl ==
    \A i \in Invocations :
        Started(i) =>
            LET path == PathOf(i)
                query == QueryStringOf(i)
            IN  \A k \in 1..Len(ApiMapping) :
                    LET p == ApiMapping[k].prefix
                        base == ApiMapping[k].target
                    IN  /\ path = p =>
                              /\ prefix[i] = p /\ rest[i] = ""
                              /\ Len(fetchCalls[i]) = 1
                              /\ fetchCalls[i][1].url = base \o query
                        /\ StartsWith(path, p \o "/") =>
                              /\ prefix[i] = p /\ rest[i] = Slice(path, Len(p))
                              /\ Len(fetchCalls[i]) = 1
                              /\ fetchCalls[i][1].url =
                                    base \o Slice(path, Len(p)) \o query

\* /openrouter/api/v1/chat?key=AIza&alt=sse was forwarded.
C3_Witness ==
    /\ pc[1] = "await"
    /\ PathOf(1) = "/openrouter/api/v1/chat"
    /\ QueryStringOf(1) = "?key=AIza&alt=sse"
    /\ fetchCalls[1][1].url = "https://openrouter.ai/api/api/v1/chat?key=AIza&alt=sse"

\* C4: the headers given to fetch are exactly the inbound headers named accept,
\* content-type, authorization, x-goog-api-key or user-agent (names compared in
\* lower case), each with its inbound value; no other inbound header is among them.
C4_ForwardedHeaders ==
    \A i \in Invocations : \A c \in 1..Len(fetchCalls[i]) :
        LET out == fetchCalls[i][c].headers
            inbound == request[i].headers
        IN  /\ DOMAIN out =
                  DOMAIN inbound \cap {"accept", "content-type", "authorization",
                                       "x-goog-api-key", "user-agent"}
            /\ \A n \in DOMAIN out : out[n] = inbound[n]

\* A request with Cookie, Authorization and Host was forwarded.
C4_Witness ==
    /\ Len(fetchCalls[1]) = 1
    /\ DOMAIN request[1].headers = {"cookie", "authorization", "host"}
    /\ DOMAIN fetchCalls[1][1].headers = {"authorization"}
    /\ fetchCalls[1][1].headers["authorization"] = "Bearer X"

C6_ThrowIs500 ==
    \A i \in Invocations :
        (pc[i] = "done" /\ fetchCalls[i] # <<>> /\ fetched[i] = <<>>) =>
            /\ Len(responses[i]) = 1
            /\ responses[i][1].status = 500
            /\ responses[i][1].body = "Internal Server Error"
            /\ responses[i][1].statusText = ""
            /\ DOMAIN responses[i][1].headers = {}

\* A forwarded POST whose fetch threw was answered.
C6_Witness ==
    /\ pc[1] = "done"
    /\ request[1].method = "POST"
    /\ Len(fetchCalls[1]) = 1
    /\ fetched[1] = <<>>
    /\ responses[1][1].status = 500

\* C7: "/" and "/index.html" are answered 200 "Service is running!" and
\* "/robots.txt" 200 with the robots body, with no call of the router, no outbound
\* header set built and no fetch, whatever the method, query string and headers.
C7_StaticPaths ==
    \A i \in Invocations :
        (Started(i) /\ StaticPath(i)) =>
            /\ pc[i] = "done"
            /\ Len(responses[i]) = 1
            /\ responses[i][1].status = 200
            /\ responses[i][1].body =
                  IF PathOf(i) = "/robots.txt" THEN "User-agent: *\nDisallow: /"
                  ELSE "Service is running!"
            /\ called[i] = <<>>
            /\ fetchCalls[i] = <<>>
            /\ prefix[i] = Null /\ rest[i] = Null /\ targetUrl[i] = Null
            /\ headers[i] = EmptyHeaders

\* POST /index.html with a query string and an Authorization header was answered.
C7_Witness ==
    /\ pc[1] = "done"
    /\ PathOf(1) = "/index.html"
    /\ request[1].method = "POST"
    /\ QueryStringOf(1) # ""
    /\ "authorization" \in DOMAIN request[1].headers
    /\ responses[1][1].body = "Service is running!"

\* C8: invocations in flight together do not affect one another: an invocation
\* that has not started can start whatever the others are doing, also while
\* another is suspended at its fetch; invocations with the same request and the
\* same upstream outcome have the same locals and return the same response; and
\* the route table is what it was at start.
C8_Independent ==
    /\ apiMapping = ApiMapping
    /\ \A i \in Invocations :
          pc[i] = "idle" => ENABLED Serve(i, ConcurrentRequests)
    /\ \A i \in Invocations :
          pc[i] = "await" =>
              /\ ENABLED FetchResolved(i, ConcurrentUpstreamResponses)
              /\ ENABLED FetchRejected(i)
    /\ \A i, j \in Invocations :
          (Started(i) /\ Started(j) /\ request[i] = request[j]) =>
              /\ prefix[i] = prefix[j] /\ rest[i] = rest[j]
              /\ targetUrl[i] = targetUrl[j] /\ headers[i] = headers[j]
              /\ fetchCalls[i] = fetchCalls[j]
              /\ (pc[i] = "done" /\ pc[j] = "done" /\ fetched[i] = fetched[j])
                    => responses[i] = responses[j]

\* Invocation 2 has relayed its upstream's response while invocation 1 is still
\* suspended at its fetch.
C8_Witness ==
    /\ pc[1] = "await"
    /\ pc[2] = "done"
    /\ fetched[2] # <<>>
    /\ responses[2][1].status = 200

\* C9: an invocation returns one response, a static 200, the 404, a relay or the
\* 500, and then does nothing more; it calls fetch at most once, only after the
\* router returned a match, and not again after the call failed.
C9_OneResponseOneCall ==
    \A i \in Invocations :
        /\ Len(responses[i]) = (IF pc[i] = "done" THEN 1 ELSE 0)
        /\ Len(fetchCalls[i]) <= 1
        /\ Len(fetchCalls[i]) = Len(SelectSeq(called[i], LAMBDA f : f = "fetch"))
        /\ fetchCalls[i] # <<>> =>
              /\ ~Falsy(prefix[i])
              /\ Accepts(PathOf(i), prefix[i])
              /\ called[i][1] = "extractPrefixAndRest"
        /\ pc[i] = "await" <=> (Len(fetchCalls[i]) = 1 /\ responses[i] = <<>>)
        /\ pc[i] = "done" =>
              /\ \/ responses[i][1] \in {RunningResponse, RobotsResponse, NotFoundResponse}
                    /\ fetchCalls[i] = <<>>
                 \/ responses[i][1] = ErrorResponse
                    /\ Len(fetchCalls[i]) = 1 /\ fetched[i] = <<>>
                 \/ Len(fetched[i]) = 1 /\ Len(fetchCalls[i]) = 1
                    /\ responses[i][1] = RelayResponse(fetched[i][1])
              /\ ~ENABLED Serve(i, Requests)
              /\ ~ENABLED FetchResolved(i, UpstreamResponses)
              /\ ~ENABLED FetchRejected(i)

\* An invocation whose one fetch failed has returned the 500.
C9_Witness ==
    /\ pc[1] = "done"
    /\ Len(fetchCalls[1]) = 1
    /\ called[1] = <<"extractPrefixAndRest", "Headers", "fetch">>
    /\ fetched[1] = <<>>
    /\ responses[1] = <<ErrorResponse>>

\* The table's keys begin with "/", differ from one another, and none is accepted
\* by the router's rule as a prefix of another.
TableKeysApart ==
    LET keys == ObjectKeys(ApiMapping)
    IN  \A j, k \in 1..Len(keys) :
            /\ StartsWith(keys[k], "/")
            /\ j # k => (keys[j] # keys[k] /\ ~Accepts(keys[j], keys[k]))

\* C10: the table's prefixes are pairwise distinct, begin with "/", and none is
\* accepted by the router's rule as a prefix of another; so a path is accepted by
\* at most one of them, and the router returns the longest match, and the same
\* result as in declaration order, whatever order the table's prefixes are in.
C10_TableOrderIrrelevant ==
    /\ TableKeysApart
    /\ (rpc = "returned" /\ rPrefixes \in TableOrders) =>
          /\ Cardinality({rPrefixes[k] : k \in AcceptedAt(rPathname, rPrefixes)}) <= 1
          /\ rResult = LongestMatch(rPathname, rPrefixes)
          /\ rResult = extractPrefixAndRest(rPathname, ObjectKeys(apiMapping))

\* The router matched a sub-path with the table in another order than declared.
C10_Witness ==
    /\ rpc = "returned"
    /\ rPrefixes \in TableOrders
    /\ rPrefixes # ObjectKeys(apiMapping)
    /\ rPathname = "/openai/v1/x"
    /\ rResult = <<"/openai", "/v1/x">>

=============================================================================
